---- MODULE Spec2Model ----
(***************************************************************************)
(* Document translation pipeline of AI-FormatTranslator.                   *)
(*                                                                         *)
(*  - EnhancedAITranslator (translate/ai/enhanced_openai.py): cache,       *)
(*    retry, backup model, semaphore-bounded concurrent batch.             *)
(*  - AITranslator (translate/ai/openai.py), ExcelFormatter chunk loop,    *)
(*    TranslateEngine.execute and its throttled progress reporter, the     *)
(*    Translate job record and the start_translate handler.                *)
(*                                                                         *)
(* Strings are TLA+ strings; the provider's answer is the text after the   *)
(* client's post-processing (strip, <think> filter), which may be empty.   *)
(***************************************************************************)
EXTENDS Integers, Sequences, FiniteSets, TLC

\* ------------------------------------------------------------------ bounds
MaxTexts == 2          \* longest batch handed to the enhanced client
MaxConcurrency == 2    \* largest max_concurrency / thread_count explored
MaxCalls == 2          \* successive translate_text calls on one client
MaxSegments == 3       \* cells of a small workbook (a large one has batch_size + 2)
MaxLines == 3          \* lines of a markdown file

\* ------------------------------------------------------- program constants
max_retries == 3                \* enhanced_openai.py:247 / :383
batch_size == 20                \* formatters/excel.py:149
progress_update_threshold == 2  \* engine.py:67
total_segments == 0             \* models/translate.py:44: the column's default; nothing assigns it
default_thread_count == 5       \* formatters/excel.py:46: getattr(ai_translator, 'thread_count', 5)

\* client configuration (EnhancedAITranslator.__init__)
api_key == "k"
api_base == "u"
model == "m1"
target_lang == "en"
\* backup_model is None (printed "None" by the f-string) or a second model
BackupModels == {"None", "m2"}

\* texts handed to the client: two distinct units and a whitespace-only one
TextPool == {"x", "y", " "}

\* str.strip() on the texts of the model
Strip(t) == IF t = " " THEN "" ELSE t

\* a slip: only the empty string is taken for blank
IsEmpty(t) == t = ""

\* `not text or not text.strip()`
IsBlank(t) == t = "" \/ Strip(t) = ""

\* exception classes the OpenAI client raises
ErrorTypes == {"RateLimitError", "AuthenticationError", "PermissionDeniedError",
               "APIConnectionError"}

\* `error_type in ['RateLimitError', 'AuthenticationError', 'PermissionDeniedError']`
FallbackErrors == {"RateLimitError", "AuthenticationError", "PermissionDeniedError"}

\* what a completion of `text` by model `m` is after strip and <think> filter:
\* a translation naming the unit and the model, or the empty string
Contents(text, m) == {text \o "_" \o m, ""}

VARIABLES
    texts,            \* the batch (or the argument of the current translate_text call)
    backup_model,     \* self.backup_model
    db,               \* TRUE iff the client was given a database session
    max_concurrency,  \* the semaphore's initial value
    current_model,    \* self.current_model
    cache,            \* translate_logs: per md5_key, the contents of its rows in insertion order
    sem,              \* the semaphore's value
    pc,               \* per unit: where its task is
    attempt,          \* per unit: the loop variable `attempt`
    calls,            \* per unit: provider requests its running call has issued
    callModel,        \* per unit: the model of the request in flight
    result,           \* per unit: what translate_text(_async) returned
    batch,            \* the batch coroutine: "idle", "running", "returned", "raised"
    sorted_results,   \* what translate_batch_async_concurrent returned
    primAllRL,        \* per unit: every primary attempt so far raised RateLimitError
    backupFailed,     \* some request to the backup model has raised on this client
    started,          \* translate_text calls begun on the client
    history,          \* the last two finished translate_text calls, oldest first
    callEntry,        \* the cache's answer for the current call's unit when it began
    callLookupOk,     \* FALSE iff the current call's cache query raised
    callSaveOk        \* FALSE iff the current call's cache write raised

VARIABLES
    file_type,            \* task.file_type
    thread_count,         \* task.thread_count, handed to the translator
    status,               \* task.status
    progress,             \* task.progress
    translated_segments,  \* task.translated_segments
    error_message,        \* task.error_message (None or the message)
    result_file_path,     \* task.result_file_path (None or the path)
    redis,                \* the snapshot under translate_progress:<id> (None or a record)
    last_progress_update, \* engine._last_progress_update
    epc,                  \* where the engine run of the job is
    total_count,          \* cells collected by the formatter
    chunk_i,              \* the chunk loop's variable i
    wpc,                  \* per text of the current chunk: where its task is
    jsem,                 \* the current chunk's semaphore
    http,                 \* status code of the last answer of start_translate (0: none yet)
    raised,               \* the step of execute that raised (None if none)
    extracted,            \* the formatter has read the source document
    requests,             \* provider requests the job's translator has issued
    wasCompleted,         \* mark_as_completed has run in this execution
    report,               \* the last call of _update_progress_with_db (None if none)
    held                  \* what execute has opened and not closed

jvars == <<file_type, thread_count, status, progress, translated_segments, error_message,
           result_file_path, redis, last_progress_update, epc, total_count, chunk_i,
           wpc, jsem, http, raised, extracted, requests, wasCompleted, report, held>>

VARIABLES
    display_mode,            \* task.display_mode, as the start request set it
    source_doc,              \* the content of the source file
    paragraphs_data,         \* the formatter's parsed paragraphs
    doc,                     \* the formatter's translated paragraphs
    fpc,                     \* where the formatter run is
    result_file,             \* the file at the result path: None, or its content
    prompts                  \* the texts sent to the provider, in order

dvars == <<display_mode, source_doc, paragraphs_data, doc, fpc, result_file, prompts>>

VARIABLES
    response                 \* the last answer of the progress or preview endpoint

avars == <<response>>

VARIABLES
    clients,                 \* the configurations of two clients of one database
    translate_logs,          \* the rows of the translate_logs table they share
    lookup                   \* the last _check_cache: who asked, for what, the row found

kvars == <<clients, translate_logs, lookup>>

VARIABLES
    rpc,                     \* per start request: where its handling is
    snapshot,                \* per start request: task.status as its session's transaction first read it
    scheduled                \* the engine executions handed to asyncio.create_task

svars == <<rpc, snapshot, scheduled>>

cvars == <<texts, backup_model, db, max_concurrency, current_model, cache, sem, pc,
           attempt, calls, callModel, result, batch, sorted_results, primAllRL,
           backupFailed, started, history, callEntry, callLookupOk, callSaveOk>>

Idx == 1..Len(texts)

\* None / an Optional[str] value
None == <<>>
Some(s) == <<s>>

\* Python truthiness of an Optional[str]: None and "" are falsy
Truthy(o) == o # None /\ o[1] # ""

\* the string _generate_md5_key hashes, for a client configured with key,
\* base, mdl and backup: the six fields one after the other
Md5Content(key, base, text, mdl, backup, lang) ==
    key \o base \o text \o mdl \o backup \o lang

\* _generate_md5_key: the hashed content; md5 itself is taken as injective
GenerateMd5Key(text, lang) ==
    Md5Content(api_key, api_base, text, model, backup_model, lang)

\* every md5_key a client of the model can compute
AllKeys ==
    {api_key \o api_base \o t \o model \o b \o target_lang :
        t \in TextPool, b \in BackupModels}

\* `query(TranslateLog).filter_by(md5_key=md5_key).first()`: the content of
\* the first row with that key, or None
FirstRow(rows, key) ==
    IF rows[key] = <<>> THEN None ELSE Some(Head(rows[key]))

\* a slip: the cache is never consulted
CheckCacheNever(text, lang) == None

\* _check_cache, when the query does not raise
CheckCache(text, lang) ==
    IF ~db THEN None ELSE FirstRow(cache, GenerateMd5Key(text, lang))

\* a slip: the row takes the place of the rows the key had
SaveCacheReplace(text, lang, content) ==
    IF ~db THEN cache
    ELSE [cache EXCEPT ![GenerateMd5Key(text, lang)] = <<content>>]

\* a slip: the row holds the source text in place of the translation
SaveCacheSource(text, lang, content) ==
    IF ~db THEN cache
    ELSE [cache EXCEPT ![GenerateMd5Key(text, lang)] = Append(@, text)]

\* _save_cache, when add/commit does not raise: one more row, none changed
SaveCache(text, lang, content) ==
    IF ~db THEN cache
    ELSE [cache EXCEPT ![GenerateMd5Key(text, lang)] = Append(@, content)]

vars == <<cvars, jvars, dvars, avars, kvars, svars>>

\* no document is being translated
InitDocIdle ==
    /\ display_mode = 1
    /\ source_doc = <<>>
    /\ doc = <<>>
    /\ paragraphs_data = <<>>
    /\ fpc = "idle"
    /\ result_file = None
    /\ prompts = <<>>

\* no pair of clients is looked at
InitKeysIdle ==
    /\ clients = <<>>
    /\ translate_logs = <<>>
    /\ lookup = None

\* no start request is looked at on its own
InitStartIdle ==
    /\ rpc = <<>>
    /\ snapshot = <<>>
    /\ scheduled = 0

\* a job that is not started while the client is looked at on its own
InitJobIdle ==
    /\ InitDocIdle
    /\ response = None
    /\ file_type = "xlsx"
    /\ thread_count = 5
    /\ status = "pending"
    /\ progress = 0
    /\ translated_segments = 0
    /\ error_message = None
    /\ result_file_path = None
    /\ redis = None
    /\ last_progress_update = 0
    /\ epc = "idle"
    /\ total_count = 0
    /\ chunk_i = 0
    /\ wpc = <<>>
    /\ jsem = 0
    /\ http = 0
    /\ raised = None
    /\ extracted = FALSE
    /\ requests = 0
    /\ wasCompleted = FALSE
    /\ report = None
    /\ held = {}

\* ------------------------------------------------------------------------
\* EnhancedAITranslator.translate_text / translate_text_async for unit i.
\* The two methods are the same statements (time.sleep against
\* asyncio.sleep); one step runs from one suspension point to the next.
\* These steps leave the semaphore and the caller's variables to the caller.

\* the cache query may raise (caught in _check_cache, which then returns None)
LookupOutcomes == IF db THEN BOOLEAN ELSE {TRUE}

\* add/commit may raise (caught in _save_cache)
SaveOutcomes == IF db THEN BOOLEAN ELSE {TRUE}

\* `return r`: the call's locals (attempt, the request, the count) are gone
Return(i, r) ==
    /\ pc' = [pc EXCEPT ![i] = "done"]
    /\ result' = [result EXCEPT ![i] = Some(r)]
    /\ attempt' = [attempt EXCEPT ![i] = 0]
    /\ calls' = [calls EXCEPT ![i] = 0]
    /\ callModel' = [callModel EXCEPT ![i] = model]

\* `if cached:` on the value _check_cache returned
CacheHit(cached) == Truthy(cached)

\* a slip: a query that raised hands back the text itself
CheckedText(t, lookupOk) ==
    IF lookupOk THEN CheckCache(t, target_lang) ELSE Some(t)

\* what _check_cache returns: the row's content, or None when the query raised
Checked(t, lookupOk) ==
    IF lookupOk THEN CheckCache(t, target_lang) ELSE None

\* entry of translate_text(t): blank check, cache check, first primary request
EnterBody(i, t, lookupOk) ==
    LET cached == Checked(t, lookupOk)
    IN  /\ UNCHANGED <<current_model, cache>>
        /\ IF IsBlank(t)
           THEN Return(i, t)
           ELSE IF CacheHit(cached)
           THEN Return(i, cached[1])
           ELSE /\ pc' = [pc EXCEPT ![i] = "primary"]
                /\ attempt' = [attempt EXCEPT ![i] = 0]
                /\ calls' = [calls EXCEPT ![i] = 1]
                /\ callModel' = [callModel EXCEPT ![i] = current_model]
                /\ result' = [result EXCEPT ![i] = None]

\* the request of _call_openai_api(use_backup=False) returns content c
PrimaryReturn(i, c, saveOk) ==
    /\ pc[i] = "primary"
    /\ c \in Contents(texts[i], callModel[i])
    /\ cache' = IF saveOk THEN SaveCache(texts[i], target_lang, c) ELSE cache
    /\ Return(i, c)
    /\ UNCHANGED current_model

\* `if self.backup_model and self.current_model != self.backup_model`
CanFallBack(e) ==
    /\ e \in FallbackErrors
    /\ backup_model # "None"
    /\ current_model # backup_model

\* `if attempt == max_retries - 1`
LastAttempt(a) == a = max_retries - 1

\* a slip: the text handed back after the last attempt is saved like a
\* translation
CacheAfterLastAttemptSaved(i) == SaveCache(texts[i], target_lang, texts[i])

\* `return text` after the last attempt: _save_cache is not called
CacheAfterLastAttempt(i) == cache

\* the request of _call_openai_api(use_backup=False) raises e
PrimaryRaise(i, e) ==
    /\ pc[i] = "primary"
    /\ e \in ErrorTypes
    /\ cache' = IF ~CanFallBack(e) /\ LastAttempt(attempt[i])
                THEN CacheAfterLastAttempt(i)
                ELSE cache
    /\ IF CanFallBack(e)
       THEN /\ current_model' = backup_model
            /\ pc' = [pc EXCEPT ![i] = "sleep1"]
            /\ UNCHANGED <<attempt, calls, callModel, result>>
       ELSE /\ UNCHANGED current_model
            /\ IF LastAttempt(attempt[i])
               THEN Return(i, texts[i])
               ELSE /\ pc' = [pc EXCEPT ![i] = "sleep5"]
                    /\ UNCHANGED <<attempt, calls, callModel, result>>

\* sleep(1) ends: the request of _call_openai_api(use_backup=True) is issued
Sleep1Done(i) ==
    /\ pc[i] = "sleep1"
    /\ pc' = [pc EXCEPT ![i] = "backup"]
    /\ calls' = [calls EXCEPT ![i] = calls[i] + 1]
    /\ callModel' = [callModel EXCEPT ![i] = backup_model]
    /\ UNCHANGED <<attempt, result, current_model, cache>>

\* a slip: the model is left as the fallback set it
KeptModel == current_model

\* `self.current_model = self.model`
RestoredModel == model

\* the backup request returns c: save, restore the primary model, return
BackupReturn(i, c, saveOk) ==
    /\ pc[i] = "backup"
    /\ c \in Contents(texts[i], callModel[i])
    /\ cache' = IF saveOk THEN SaveCache(texts[i], target_lang, c) ELSE cache
    /\ current_model' = RestoredModel
    /\ Return(i, c)

\* the backup request raises inside the except block: nothing catches it,
\* translate_text is left by the exception
BackupRaise(i, e) ==
    /\ pc[i] = "backup"
    /\ e \in ErrorTypes
    /\ pc' = [pc EXCEPT ![i] = "raised"]
    /\ attempt' = [attempt EXCEPT ![i] = 0]
    /\ calls' = [calls EXCEPT ![i] = 0]
    /\ callModel' = [callModel EXCEPT ![i] = model]
    /\ UNCHANGED <<result, current_model, cache>>

\* sleep(5) ends: next loop iteration, next primary request
Sleep5Done(i) ==
    /\ pc[i] = "sleep5"
    /\ attempt' = [attempt EXCEPT ![i] = attempt[i] + 1]
    /\ pc' = [pc EXCEPT ![i] = "primary"]
    /\ calls' = [calls EXCEPT ![i] = calls[i] + 1]
    /\ callModel' = [callModel EXCEPT ![i] = current_model]
    /\ UNCHANGED <<result, current_model, cache>>

\* the unit's call has ended (returned or raised)
Ended(p) == p \in {"done", "raised"}
\* ------------------------------------------------------------------------
\* translate_batch_async_concurrent (enhanced_openai.py:432-477): one task
\* per non-blank text, each under `async with semaphore`, gathered, then
\* placed by index.  Indices are 1-based here (Python's index + 1).

\* what is left alone by a step of unit i's task under the semaphore:
\* leaving `async with` (by return or by exception) releases the semaphore
TaskFrame(i) ==
    /\ sem' = IF Ended(pc'[i]) THEN sem + 1 ELSE sem
    /\ UNCHANGED <<texts, backup_model, db, max_concurrency, batch, sorted_results,
                   primAllRL, backupFailed, started, history, callEntry, callLookupOk, callSaveOk>>
    /\ UNCHANGED jvars
    /\ UNCHANGED <<dvars, avars, kvars, svars>>

\* asyncio.Semaphore.acquire does not block
SemaphoreOpen == TRUE
SemaphoreFree == sem > 0

\* the semaphore wakes its waiters in the order they arrived, which is the
\* order gather started the tasks
FirstWaiter(i) == \A j \in Idx : j < i => pc[j] # "waiting"

\* `async with semaphore:` entered, translate_text_async runs to its first await
Acquire(i) ==
    /\ pc[i] = "waiting"
    /\ SemaphoreFree
    /\ FirstWaiter(i)
    /\ \E ok \in LookupOutcomes : EnterBody(i, texts[i], ok)
    /\ sem' = IF Ended(pc'[i]) THEN sem ELSE sem - 1
    /\ UNCHANGED <<texts, backup_model, db, max_concurrency, batch, sorted_results,
                   primAllRL, backupFailed, started, history, callEntry, callLookupOk, callSaveOk>>
    /\ UNCHANGED jvars
    /\ UNCHANGED <<dvars, avars, kvars, svars>>

TaskPrimaryReturn(i) ==
    \E c \in Contents(texts[i], callModel[i]), saveOk \in SaveOutcomes :
        PrimaryReturn(i, c, saveOk) /\ TaskFrame(i)

TaskPrimaryRaise(i) == \E e \in ErrorTypes : PrimaryRaise(i, e) /\ TaskFrame(i)

TaskSleep1Done(i) == Sleep1Done(i) /\ TaskFrame(i)

TaskBackupReturn(i) ==
    \E c \in Contents(texts[i], callModel[i]), saveOk \in SaveOutcomes :
        BackupReturn(i, c, saveOk) /\ TaskFrame(i)

TaskBackupRaise(i) == \E e \in ErrorTypes : BackupRaise(i, e) /\ TaskFrame(i)

TaskSleep5Done(i) == Sleep5Done(i) /\ TaskFrame(i)

\* the list gather returns: (index, result) of every task, in task order
RECURSIVE TaskResults(_)
TaskResults(i) ==
    IF i > Len(texts) THEN <<>>
    ELSE IF pc[i] = "none" THEN TaskResults(i + 1)
    ELSE <<[index |-> i, result |-> result[i][1]]>> \o TaskResults(i + 1)

\* a slip: the j-th gathered result is put at position j
SortedByPosition(txts, results) ==
    [j \in 1..Len(txts) |-> IF j <= Len(results) THEN results[j].result ELSE txts[j]]

\* `sorted_results = list(texts); for index, result in results: sorted_results[index] = result`
RECURSIVE SortedResults(_, _)
SortedResults(txts, results) ==
    IF results = <<>> THEN txts
    ELSE SortedResults([txts EXCEPT ![Head(results).index] = Head(results).result],
                       Tail(results))

\* every task has returned: gather returns, the batch returns the placed list
Gather ==
    /\ batch = "running"
    /\ \A i \in Idx : pc[i] \in {"none", "done"}
    /\ batch' = "returned"
    /\ sorted_results' = SortedResults(texts, TaskResults(1))
    /\ UNCHANGED <<texts, backup_model, db, max_concurrency, current_model, cache, sem,
                   pc, attempt, calls, callModel, result, primAllRL, backupFailed,
                   started, history, callEntry, callLookupOk, callSaveOk>>
    /\ UNCHANGED jvars
    /\ UNCHANGED <<dvars, avars, kvars, svars>>

\* a task has raised: gather (return_exceptions=False) raises it to the caller
GatherRaise ==
    /\ batch = "running"
    /\ \E i \in Idx : pc[i] = "raised"
    /\ batch' = "raised"
    /\ UNCHANGED <<texts, backup_model, db, max_concurrency, current_model, cache, sem,
                   pc, attempt, calls, callModel, result, sorted_results, primAllRL,
                   backupFailed, started, history, callEntry, callLookupOk, callSaveOk>>
    /\ UNCHANGED jvars
    /\ UNCHANGED <<dvars, avars, kvars, svars>>

\* all sequences over S of length lo..hi
SeqsOf(S, lo, hi) == UNION {[1..n -> S] : n \in lo..hi}

InitBatch ==
    /\ InitJobIdle
    /\ InitKeysIdle
    /\ InitStartIdle
    /\ texts \in SeqsOf(TextPool, 1, MaxTexts)
    /\ backup_model \in BackupModels
    /\ db = TRUE
    /\ max_concurrency \in 1..MaxConcurrency
    /\ current_model = model
    /\ cache = [k \in AllKeys |-> <<>>]
    /\ sem = max_concurrency
    /\ pc = [i \in Idx |-> IF IsBlank(texts[i]) THEN "none" ELSE "waiting"]
    /\ attempt = [i \in Idx |-> 0]
    /\ calls = [i \in Idx |-> 0]
    /\ callModel = [i \in Idx |-> model]
    /\ result = [i \in Idx |-> None]
    /\ batch = "running"
    /\ sorted_results = <<>>
    /\ primAllRL = [i \in Idx |-> TRUE]
    /\ backupFailed = FALSE
    /\ started = 0
    /\ history = <<>>
    /\ callEntry = None
    /\ callLookupOk = TRUE
    /\ callSaveOk = TRUE

NextBatch ==
    \/ \E i \in Idx : Acquire(i)
    \/ \E i \in Idx : TaskPrimaryReturn(i)
    \/ \E i \in Idx : TaskPrimaryRaise(i)
    \/ \E i \in Idx : TaskSleep1Done(i)
    \/ \E i \in Idx : TaskBackupReturn(i)
    \/ \E i \in Idx : TaskBackupRaise(i)
    \/ \E i \in Idx : TaskSleep5Done(i)
    \/ Gather
    \/ GatherRaise

SpecBatch == InitBatch /\ [][NextBatch]_vars
\* ------------------------------------------------------------------------
\* Successive translate_text calls on one client (enhanced_openai.py:227-294).
\* Slot 1 is the call in progress; the caller is sequential, so a call begins
\* only when the previous one has returned or raised.

\* what the caller can tell about a finished call
FinishedCall(t, p, r, n, entry, ok, saveOk, saved, allRL) ==
    [text |-> t, raised |-> (p = "raised"), result |-> r, calls |-> n,
     entry |-> entry, lookupOk |-> ok, saveOk |-> saveOk, saved |-> saved,
     primAllRL |-> allRL]

\* the last two entries of a sequence
LastTwo(h) == IF Len(h) <= 2 THEN h ELSE SubSeq(h, Len(h) - 1, Len(h))

\* the frame of a step of the call in progress that issued n requests so far
TextFrame(n) ==
    /\ history' = IF Ended(pc'[1])
                  THEN LastTwo(Append(history,
                              FinishedCall(texts'[1], pc'[1],
                                           IF pc'[1] = "raised" THEN None ELSE result'[1],
                                           n, callEntry', callLookupOk',
                                           callSaveOk', cache' # cache,
                                           primAllRL'[1])))
                  ELSE history
    /\ UNCHANGED <<backup_model, db, max_concurrency, sem, batch, sorted_results>>
    /\ UNCHANGED jvars
    /\ UNCHANGED <<dvars, avars, kvars, svars>>

\* translate_text(t) is called
TranslateText(t) ==
    /\ pc[1] \in {"idle", "done", "raised"}
    /\ started < MaxCalls
    /\ started' = started + 1
    /\ texts' = <<t>>
    /\ \E ok \in LookupOutcomes :
          /\ EnterBody(1, t, ok)
          /\ callLookupOk' = ok
    /\ callSaveOk' = TRUE
    /\ callEntry' = CheckCache(t, target_lang)
    /\ primAllRL' = <<TRUE>>
    /\ UNCHANGED backupFailed
    /\ TextFrame(0)

TextPrimaryReturn ==
    /\ \E c \in Contents(texts[1], callModel[1]), saveOk \in SaveOutcomes :
          /\ PrimaryReturn(1, c, saveOk)
          /\ callSaveOk' = saveOk
    /\ primAllRL' = <<primAllRL[1] /\ callModel[1] # model>>
    /\ UNCHANGED <<texts, backupFailed, started, callEntry, callLookupOk>>
    /\ TextFrame(calls[1])

TextPrimaryRaise ==
    /\ \E e \in ErrorTypes :
          /\ PrimaryRaise(1, e)
          /\ primAllRL' = <<primAllRL[1] /\ (callModel[1] = model => e = "RateLimitError")>>
    /\ backupFailed' = (backupFailed \/ callModel[1] # model)
    /\ UNCHANGED <<texts, started, callEntry, callLookupOk, callSaveOk>>
    /\ TextFrame(calls[1])

TextSleep1Done ==
    /\ Sleep1Done(1)
    /\ UNCHANGED <<texts, primAllRL, backupFailed, started, callEntry, callLookupOk, callSaveOk>>
    /\ TextFrame(calls[1])

TextBackupReturn ==
    /\ \E c \in Contents(texts[1], callModel[1]), saveOk \in SaveOutcomes :
          /\ BackupReturn(1, c, saveOk)
          /\ callSaveOk' = saveOk
    /\ UNCHANGED <<texts, primAllRL, backupFailed, started, callEntry, callLookupOk>>
    /\ TextFrame(calls[1])

TextBackupRaise ==
    /\ \E e \in ErrorTypes : BackupRaise(1, e)
    /\ backupFailed' = TRUE
    /\ UNCHANGED <<texts, primAllRL, started, callEntry, callLookupOk, callSaveOk>>
    /\ TextFrame(calls[1])

TextSleep5Done ==
    /\ Sleep5Done(1)
    /\ UNCHANGED <<texts, primAllRL, backupFailed, started, callEntry, callLookupOk, callSaveOk>>
    /\ TextFrame(calls[1])

InitText ==
    /\ InitJobIdle
    /\ InitKeysIdle
    /\ InitStartIdle
    /\ texts = <<"">>
    /\ backup_model \in BackupModels
    /\ db \in BOOLEAN
    /\ max_concurrency = 1
    /\ current_model = model
    /\ cache = [k \in AllKeys |-> <<>>]
    /\ sem = 1
    /\ pc = <<"idle">>
    /\ attempt = <<0>>
    /\ calls = <<0>>
    /\ callModel = <<model>>
    /\ result = <<None>>
    /\ batch = "idle"
    /\ sorted_results = <<>>
    /\ primAllRL = <<TRUE>>
    /\ backupFailed = FALSE
    /\ started = 0
    /\ history = <<>>
    /\ callEntry = None
    /\ callLookupOk = TRUE
    /\ callSaveOk = TRUE

NextText ==
    \/ \E t \in TextPool : TranslateText(t)
    \/ TextPrimaryReturn
    \/ TextPrimaryRaise
    \/ TextSleep1Done
    \/ TextBackupReturn
    \/ TextBackupRaise
    \/ TextSleep5Done

SpecText == InitText /\ [][NextText]_vars
\* ------------------------------------------------------------------------
\* Properties of the translation client

\* the strings translate_text may give for unit t: its own text, or what a
\* model answered for it
ResultsFor(t) == {t} \cup Contents(t, model) \cup Contents(t, "m2")

\* C1: whenever translate_batch_async_concurrent returns, the list has the
\* length of texts and its i-th element is what unit i's own task returned
\* (texts[i] itself for a blank text), a result for texts[i], whatever the
\* order in which the tasks finished.
OrderPreservedC1 ==
    batch = "returned" =>
        /\ Len(sorted_results) = Len(texts)
        /\ \A i \in Idx :
              /\ sorted_results[i] = (IF pc[i] = "none" THEN texts[i] ELSE result[i][1])
              /\ sorted_results[i] \in ResultsFor(texts[i])

\* a batch with a blank text before a translated one has returned: gather
\* gave one result, and it stands at its own text's position, the second
WitnessC1 ==
    /\ batch = "returned"
    /\ texts = <<" ", "x">>
    /\ Len(TaskResults(1)) = 1
    /\ sorted_results = <<" ", "x_m1">>

\* C2: translate_text / translate_text_async never raises, so the batch
\* never ends by an exception.
NeverRaisesC2 ==
    /\ \A i \in Idx : pc[i] # "raised"
    /\ batch # "raised"

\* units inside a translation call: a provider request or a backoff wait
InCall == {i \in Idx : pc[i] \in {"primary", "sleep1", "backup", "sleep5"}}

\* C5: at most max_concurrency units are inside a translation call at once.
BoundedFanOutC5 == Cardinality(InCall) <= max_concurrency

\* two units wait for a provider while the semaphore is exhausted, or one
\* runs while another is kept waiting by a semaphore of one
WitnessC5 ==
    /\ Len(texts) = 2
    /\ max_concurrency = 1
    /\ pc[1] = "sleep5"
    /\ pc[2] = "waiting"
    /\ sem = 0

\* C9: no unit causes a 4th provider request.
AtMostThreeCallsC9 == \A i \in Idx : calls[i] <= max_retries

Last(h) == h[Len(h)]

\* two finished calls in a row for the same unit, the first of which returned
SameUnitTwice ==
    /\ Len(history) = 2
    /\ pc[1] \in {"done", "raised"}
    /\ history[1].text = history[2].text
    /\ ~IsBlank(history[1].text)

\* the cache of the two calls works (a session, no failed query or write)
\* and holds no empty translation, so that only the provider's doing is left
\* to vary
CacheWorkedC6 ==
    /\ db
    /\ history[2].lookupOk
    /\ ~history[1].raised
    /\ history[1].result # Some("")
    /\ history[1].entry # Some("")
    /\ (history[1].calls > 0 /\ history[1].result # Some(history[1].text))
          => history[1].saved

\* C6 as stated: the second of two successive calls for the same unit
\* returns the string the first returned and issues no provider request,
\* whatever the provider did during the first call (the cache working).
CacheIdempotenceC6 ==
    (SameUnitTwice /\ CacheWorkedC6) =>
        /\ ~history[2].raised
        /\ history[2].result = history[1].result
        /\ history[2].calls = 0

\* the first call ended with its result in the cache: it was a hit, or it
\* wrote the row and no older row exists for the unit
FirstCallCached(h) ==
    /\ ~h.raised
    /\ h.result # None
    /\ h.result[1] # ""
    /\ \/ h.calls = 0
       \/ h.saved /\ h.entry = None

\* C6 amended: if the first call returned a non-empty translation that it
\* read from the cache or wrote to it as the unit's first row, and the second
\* call's cache query does not fail, the second call returns the same string
\* and issues no provider request.
CacheIdempotenceAmendedC6 ==
    (SameUnitTwice /\ FirstCallCached(history[1]) /\ history[2].lookupOk) =>
        /\ ~history[2].raised
        /\ history[2].result = history[1].result
        /\ history[2].calls = 0

\* the first call translated "x" through the provider and saved it, and the
\* second call for "x" has returned
WitnessC6 ==
    /\ SameUnitTwice
    /\ history[1].calls > 0
    /\ history[1].saved
    /\ history[1].result = Some("x_m1")
    /\ history[2].lookupOk
    /\ history[2].result = Some("x_m1")

\* C7: a call that finds an entry for its unit (the cache query working)
\* returns exactly the stored text, whatever its value, with no provider
\* request.
StoredValueReturnedC7 ==
    \A j \in 1..Len(history) :
        (history[j].entry # None /\ history[j].lookupOk /\ ~IsBlank(history[j].text)) =>
            /\ history[j].result = history[j].entry
            /\ history[j].calls = 0

\* C8: with a backup model configured, a call all of whose primary-model
\* requests raised RateLimitError, on a client whose backup-model requests
\* never raised, returns the backup model's answer and leaves current_model
\* equal to the primary model.
BackupFallbackC8 ==
    (/\ pc[1] = "done"
     /\ Len(history) > 0
     /\ backup_model # "None"
     /\ Last(history).calls > 0
     /\ Last(history).primAllRL
     /\ ~backupFailed) =>
        /\ result[1] # None
        /\ result[1][1] \in Contents(texts[1], backup_model)
        /\ current_model = model

\* the primary was rate-limited, the backup answered, the call has returned
WitnessC8 ==
    /\ pc[1] = "done"
    /\ Len(history) > 0
    /\ backup_model = "m2"
    /\ Last(history).calls = 2
    /\ Last(history).primAllRL
    /\ ~backupFailed
    /\ result[1] = Some("x_m2")

\* C21: whenever a translate_text call has ended, by returning or by
\* raising, current_model is the primary model, and the first request of
\* every call goes to the primary model.
ModelRevertsC21 ==
    /\ Ended(pc[1]) => current_model = model
    /\ (pc[1] = "primary" /\ attempt[1] = 0) => callModel[1] = model

\* C22: in a concurrent batch every primary attempt is sent to the primary
\* model, and with a backup model configured a unit whose primary attempt is
\* under way would get its own backup retry on a rate-limit error, whatever
\* the other units are doing.
FallbackIndependentC22 ==
    \A b \in Idx :
        pc[b] = "primary" =>
            /\ callModel[b] = model
            /\ backup_model # "None" => CanFallBack("RateLimitError")

\* C28: whatever the interleaving of the units of a batch, the cache holds at
\* most one row per md5_key.
OneEntryC28 == \A k \in AllKeys : Len(cache[k]) <= 1

\* the seconds a unit's call sleeps at p: `time.sleep(1)` before the backup
\* request, `time.sleep(5)` before the next attempt
WaitSeconds(p) ==
    CASE p = "sleep1" -> 1
      [] p = "sleep5" -> 5
      [] OTHER        -> 0

\* C26: the wait before the next attempt follows the error class: after
\* rate-limit errors 5 s, then 10 s (5 * 2^attempt), after other errors a
\* flat 5 s.
BackoffC26 ==
    pc[1] = "sleep5" =>
        WaitSeconds(pc[1]) = IF primAllRL[1] THEN 5 * (2 ^ attempt[1]) ELSE 5

\* the md5_key of a finished call's unit
UnitKey(h) == GenerateMd5Key(h.text, target_lang)

\* the call returned what a model answered: it made a request, did not raise
\* and did not fall back to the source text
ProviderReturned(h) ==
    /\ ~h.raised
    /\ h.calls >= 1
    /\ h.result # Some(h.text)

\* the call added a row under its unit's key, holding what it returned
EntryWritten(h) ==
    /\ h.saved
    /\ cache[UnitKey(h)] # <<>>
    /\ Last(cache[UnitKey(h)]) = h.result[1]

\* C27 as stated: every call that returned a provider translation has
\* written a cache row for its unit's key holding that translation.
CacheWrittenC27 ==
    (history # <<>> /\ ProviderReturned(Last(history))) => EntryWritten(Last(history))

\* C27: a call that returned a provider translation has written a cache row
\* for its unit's key holding that translation, when the client has a
\* database session and the write did not raise.
CacheWrittenAmendedC27 ==
    (history # <<>> /\ ProviderReturned(Last(history)) /\ db /\ Last(history).saveOk)
        => EntryWritten(Last(history))

WitnessC27 ==
    /\ history # <<>>
    /\ pc[1] = "done"
    /\ ProviderReturned(Last(history))
    /\ db
    /\ Last(history).saveOk
    /\ Last(history).result # Some("")
    /\ EntryWritten(Last(history))

\* a cache operation of the call failed: the query raised (a blank text is
\* returned before any query), or add/commit raised
CacheFailed(h) ==
    \/ ~h.lookupOk /\ ~IsBlank(h.text)
    \/ ~h.saveOk

\* C30: a call whose cache lookup or cache write failed behaves as an
\* uncached call: it went to the provider, it did not raise unless the
\* backup request raised, it gave the source text only after max_retries
\* failed requests, and a failed write left the provider's answer returned.
CacheBestEffortC30 ==
    (history # <<>> /\ CacheFailed(Last(history))) =>
        LET h == Last(history)
        IN  /\ h.calls >= 1
            /\ h.raised => backupFailed
            /\ (~h.raised /\ h.result = Some(h.text)) => h.calls = max_retries
            /\ ~h.saveOk =>
                  /\ ProviderReturned(h)
                  /\ h.result[1] \in Contents(h.text, model) \cup Contents(h.text, backup_model)

WitnessC30 ==
    /\ history # <<>>
    /\ pc[1] = "done"
    /\ db
    /\ ~Last(history).lookupOk
    /\ ~Last(history).saveOk
    /\ ~Last(history).saved
    /\ Last(history).calls = 1
    /\ Last(history).result = Some("x_m1")

\* the call gave its unit's source text back after its attempts failed
Degraded(h) ==
    /\ ~h.raised
    /\ h.calls >= 1
    /\ h.result = Some(h.text)

\* C31: every cache row holds what a model answered for its unit; a call that
\* degrades to the source text writes no row, and the next call for the same
\* unit does not return the source text from the cache: it asks the provider
\* again when the unit had no row.
OnlyProviderTextsC31 ==
    /\ \A t \in TextPool :
          \A n \in 1..Len(cache[GenerateMd5Key(t, target_lang)]) :
              cache[GenerateMd5Key(t, target_lang)][n]
                  \in Contents(t, model) \cup Contents(t, "m2")
    /\ (history # <<>> /\ Degraded(Last(history))) => ~Last(history).saved
    /\ (SameUnitTwice /\ Degraded(history[1])) =>
          /\ history[2].calls = 0 => history[2].result # Some(history[2].text)
          /\ history[1].entry = None => history[2].calls >= 1

WitnessC31 ==
    /\ SameUnitTwice
    /\ db
    /\ Degraded(history[1])
    /\ history[1].calls = max_retries
    /\ history[2].lookupOk
    /\ history[2].calls = 1
    /\ history[2].result = Some("x_m1")
    /\ cache[GenerateMd5Key("x", target_lang)] = <<"x_m1">>

\* the rows a are the first rows of b
IsPrefix(a, b) == Len(a) <= Len(b) /\ SubSeq(b, 1, Len(a)) = a

\* C32: no step of the client changes or removes a cache row: under every
\* md5_key the rows that were there stay, in place, with their content.
EntriesKeptC32 == [][\A k \in AllKeys : IsPrefix(cache[k], cache'[k])]_vars

WitnessC32 ==
    /\ pc[1] = "done"
    /\ Len(history) = 2
    /\ history[2].saved
    /\ cache[GenerateMd5Key("x", target_lang)] = <<"", "x_m1">>

\* C33: a translate_text call for an empty or whitespace-only text returns
\* at once with the text itself: no request is issued, no row is written, and
\* the cache and current_model are as they were.
BlankShortCircuitC33 ==
    [][(started' # started /\ (texts'[1] = "" \/ Strip(texts'[1]) = "")) =>
          /\ pc'[1] = "done"
          /\ result'[1] = Some(texts'[1])
          /\ Last(history').text = texts'[1]
          /\ Last(history').calls = 0
          /\ ~Last(history').saved
          /\ cache' = cache
          /\ current_model' = current_model]_vars

WitnessC33 ==
    /\ pc[1] = "done"
    /\ Len(history) = 2
    /\ history[1].saved
    /\ history[2].text = " "
    /\ history[2].result = Some(" ")
    /\ history[2].calls = 0

\* ------------------------------------------------------------------------
\* A translation job: start_translate (resources/translate/translate.py),
\* TranslateEngine.execute (translate/engine.py) running ExcelFormatter
\* (translate/formatters/excel.py) over AITranslator (translate/ai/openai.py).
\* execute runs in one worker thread; the formatter's event loop runs in that
\* thread, so one step runs from one suspension point to the next.

\* TranslateEngine.FORMATTERS: the file types with a formatter
FORMATTERS == {"docx", "pdf", "xlsx", "pptx", "md", "txt"}

\* file types of a job: ALLOWED_EXTENSIONS is a setting, so an upload may be
\* admitted with a type that has no formatter
FileTypes == {"xlsx", "docx", "doc"}

\* numbers of cells the workbook may hold: none, a few, or a chunk and two more
SegmentCounts == (0..MaxSegments) \cup {batch_size + 2}

\* str(e) of the exception each step of execute raises
Message(step) ==
    CASE step = "formatter" -> "unsupported file format"
      [] step = "instantiate" -> "cannot instantiate abstract class"
      [] step = "source"    -> "source file does not exist"
      [] step = "extract"   -> "workbook cannot be read"
      [] step = "translate" -> "commit failed in progress update"
      [] step = "save"      -> "workbook cannot be written"
      [] OTHER              -> "commit failed"

\* the dictionary RedisClient.set_translate_progress stores
Snapshot(st, p, tot, tr, err) ==
    Some([status |-> st, progress |-> p, total_segments |-> tot,
          translated_segments |-> tr, error_message |-> err])

Abs(x) == IF x < 0 THEN 0 - x ELSE x

Min(a, b) == IF a < b THEN a ELSE b

\* Translate.mark_as_started
MarkAsStarted ==
    /\ status' = "processing"
    /\ progress' = 0

\* Translate.mark_as_completed
MarkAsCompleted(result_path) ==
    /\ status' = "completed"
    /\ progress' = 100
    /\ result_file_path' = Some(result_path)

\* a slip: the status is set, the message is not
MarkAsFailedNoMessage(error_msg) ==
    /\ status' = "failed"
    /\ error_message' = error_message

\* Translate.mark_as_failed
MarkAsFailed(error_msg) ==
    /\ status' = "failed"
    /\ error_message' = Some(error_msg)

\* Translate.update_progress: the value it gives task.progress
UpdatedProgress(translated_count) ==
    IF total_segments > 0 THEN (translated_count * 100) \div total_segments ELSE 0

\* a slip: the status is not looked at
StartableAlways == TRUE

\* `if translate.status != "pending": raise HTTPException(400)` passed
Startable == status = "pending"

\* start_translate on a pending job: configuration, mark_as_started, commit,
\* snapshot, engine scheduled; a failing commit is rolled back and answered 500
StartTranslate(tc, commitOk) ==
    /\ Startable
    /\ UNCHANGED <<extracted, requests>>
    /\ IF commitOk
       THEN /\ MarkAsStarted
            /\ thread_count' = tc
            /\ redis' = Snapshot("processing", 0, 0, 0, None)
            /\ epc' = "scheduled"
            /\ http' = 200
       ELSE /\ http' = 500
            /\ UNCHANGED <<status, progress, thread_count, redis, epc>>
    /\ UNCHANGED <<file_type, translated_segments, error_message, result_file_path,
                   last_progress_update, total_count, chunk_i, wpc, jsem, raised,
                   wasCompleted, report, held>>
    /\ UNCHANGED cvars
    /\ UNCHANGED <<dvars, avars, kvars, svars>>

\* start_translate on a job that is not pending: answered 400, nothing changed
StartRejected ==
    /\ ~Startable
    /\ UNCHANGED <<extracted, requests>>
    /\ http' = 400
    /\ UNCHANGED <<file_type, thread_count, status, progress, translated_segments,
                   error_message, result_file_path, redis, last_progress_update, epc,
                   total_count, chunk_i, wpc, jsem, raised, wasCompleted, report, held>>
    /\ UNCHANGED cvars
    /\ UNCHANGED <<dvars, avars, kvars, svars>>

\* what a step of execute leaves alone unless it says otherwise
ReportFrame ==
    UNCHANGED <<file_type, thread_count, http>> /\ UNCHANGED cvars /\ UNCHANGED <<dvars, avars, kvars, svars>>

\* a step of execute that makes no progress report
EngineFrame == ReportFrame /\ UNCHANGED report

\* the finally block of execute: db.close() and close_async
Finally(h) == h \ {"session", "client"}

\* the body of execute leaves h held; the finally block runs when execute ends
Held(h) == held' = IF epc' = "done" THEN Finally(h) ELSE h

\* a step that reads no document and issues no request
NoTraffic == UNCHANGED <<extracted, requests>>

\* the except block of execute for an exception raised by `step`, the task
\* holding progress p and translated_segments tr: mark_as_failed(str(e)),
\* commit, failed snapshot (not written when this commit raises), finally
Except(step, p, tr, commitOk) ==
    /\ MarkAsFailed(Message(step))
    /\ progress' = p
    /\ translated_segments' = tr
    /\ raised' = Some(step)
    /\ redis' = IF commitOk
                THEN Snapshot("failed", p, total_segments, tr, Some(Message(step)))
                ELSE redis
    /\ epc' = "done"

\* execute begins: _load_task_with_db; when the query raises, self.task is
\* still None, the except block marks nothing and the exception leaves execute
LoadTask(loaded) ==
    /\ epc = "scheduled"
    /\ IF loaded
       THEN epc' = "formatter" /\ UNCHANGED raised
       ELSE epc' = "done" /\ raised' = Some("load")
    /\ UNCHANGED <<status, progress, translated_segments, error_message,
                   result_file_path, redis, last_progress_update, total_count, chunk_i,
                   wpc, jsem, wasCompleted>>
    /\ NoTraffic
    /\ EngineFrame
    /\ Held(held \cup {"session"})

\* a slip: every file type is taken to have a formatter
HasFormatterAny(ft) == TRUE

\* `self.FORMATTERS.get(self.task.file_type)` is not None
HasFormatter(ft) == ft \in FORMATTERS

\* the abstract methods of BaseFormatter
AbstractMethods == {"translate", "translate_async", "extract_content"}

\* the methods each registered formatter class defines
Methods(ft) ==
    CASE ft = "docx" -> {"translate", "translate_async"}
      [] ft = "pdf"  -> {"translate", "translate_async"}
      [] ft = "xlsx" -> {"translate", "translate_async", "extract_content"}
      [] ft = "pptx" -> {"translate", "translate_async"}
      [] ft = "md"   -> {"translate", "translate_async", "extract_content"}
      [] ft = "txt"  -> {"translate", "translate_async"}
      [] OTHER       -> {}

\* formatter_class(): a subclass of an ABC can be constructed only when it
\* overrides every abstract method; otherwise the call raises TypeError
Instantiable(ft) == AbstractMethods \subseteq Methods(ft)

\* _get_formatter
GetFormatter ==
    /\ epc = "formatter"
    /\ NoTraffic
    /\ IF ~HasFormatter(file_type)
       THEN \E ok \in BOOLEAN : Except("formatter", progress, translated_segments, ok)
       ELSE IF ~Instantiable(file_type)
       THEN \E ok \in BOOLEAN : Except("instantiate", progress, translated_segments, ok)
       ELSE /\ epc' = "source"
            /\ UNCHANGED <<status, progress, translated_segments, error_message, redis,
                           raised>>
    /\ UNCHANGED <<result_file_path, last_progress_update, total_count, chunk_i, wpc,
                   jsem, wasCompleted>>
    /\ EngineFrame
    /\ Held(held)

\* _init_ai_translator and `if not os.path.exists(self.task.file_path)`
CheckSource(exists) ==
    /\ epc = "source"
    /\ NoTraffic
    /\ IF exists
       THEN /\ epc' = "extract"
            /\ UNCHANGED <<status, progress, translated_segments, error_message, redis,
                           raised>>
       ELSE \E ok \in BOOLEAN : Except("source", progress, translated_segments, ok)
    /\ UNCHANGED <<result_file_path, last_progress_update, total_count, chunk_i, wpc,
                   jsem, wasCompleted>>
    /\ EngineFrame
    /\ Held(held \cup {"client"})

\* translate_async: load_workbook and the collection of the cells; n cells
\* are found, or the workbook cannot be read
Extract(readable, n) ==
    /\ epc = "extract"
    /\ extracted' = TRUE
    /\ UNCHANGED requests
    /\ IF readable
       THEN /\ epc' = "loop"
            /\ total_count' = n
            /\ chunk_i' = 0
            /\ UNCHANGED <<status, progress, translated_segments, error_message, redis,
                           raised>>
       ELSE /\ \E ok \in BOOLEAN : Except("extract", progress, translated_segments, ok)
            /\ UNCHANGED <<total_count, chunk_i>>
    /\ UNCHANGED <<result_file_path, last_progress_update, wpc, jsem, wasCompleted>>
    /\ EngineFrame
    /\ Held(IF readable THEN held \cup {"workbook"} ELSE held)

\* max_concurrency of the batch: `getattr(ai_translator, 'thread_count', 5)`,
\* which _init_ai_translator set to task.thread_count
PoolSize == thread_count

\* `for i in range(0, total_count, batch_size)`: the next chunk is handed to
\* translate_batch_async_concurrent, which makes the semaphore and one task
\* per text (no collected cell is blank)
StartChunk ==
    /\ epc = "loop"
    /\ NoTraffic
    /\ chunk_i < total_count
    /\ wpc' = [j \in 1..Min(batch_size, total_count - chunk_i) |-> "waiting"]
    /\ jsem' = PoolSize
    /\ epc' = "gather"
    /\ UNCHANGED <<status, progress, translated_segments, error_message,
                   result_file_path, redis, last_progress_update, total_count, chunk_i,
                   raised, wasCompleted>>
    /\ EngineFrame
    /\ Held(held)

\* the semaphore wakes the tasks in the order gather started them
FirstWaiting(j) == \A h \in 1..Len(wpc) : h < j => wpc[h] # "waiting"

\* `async with semaphore:` entered; AITranslator.translate_text_async issues
\* its request
WorkerAcquire(j) ==
    /\ epc = "gather"
    /\ wpc[j] = "waiting"
    /\ jsem > 0
    /\ FirstWaiting(j)
    /\ wpc' = [wpc EXCEPT ![j] = "inflight"]
    /\ jsem' = jsem - 1
    /\ requests' = requests + 1
    /\ UNCHANGED extracted
    /\ UNCHANGED <<status, progress, translated_segments, error_message,
                   result_file_path, redis, last_progress_update, epc, total_count,
                   chunk_i, raised, wasCompleted>>
    /\ EngineFrame
    /\ Held(held)

\* `int((current / total * 100)) if total > 0 else 0`
ProgressPercent(current, total) == IF total > 0 THEN (current * 100) \div total ELSE 0

\* a slip: the test reads the bookkeeping as the call before this one found
\* it, not as that call left it
ShouldUpdateStale(percent, elapsed) ==
    LET stale == IF report = None THEN 0 ELSE report[1].last
    IN  \/ stale = 0
        \/ Abs(percent - stale) >= progress_update_threshold
        \/ elapsed

\* should_update of _update_progress_with_db; elapsed: the interval has passed
ShouldUpdate(percent, elapsed) ==
    \/ last_progress_update = 0
    \/ Abs(percent - last_progress_update) >= progress_update_threshold
    \/ elapsed

\* what is kept of a call of _update_progress_with_db: whether it is the
\* job's first, its percent, the percent committed last (the first commit
\* has none before it), whether the interval had passed, whether the task
\* and the snapshot were written
Report(percent, elapsed, wrote) ==
    Some([first |-> report = None, percent |-> percent,
          last |-> last_progress_update, elapsed |-> elapsed, wrote |-> wrote])

\* the request of task j (index j - 1) is over: translate_text_async returns a
\* translation or, having caught the failure, the text; then
\* progress_callback(index + 1, len(texts)) = _update_progress_with_db, whose
\* commit may raise, which gather hands to execute
WorkerComplete(j, elapsed, commitOk) ==
    LET total == Len(wpc)
        percent == ProgressPercent(j, total)
    IN  /\ epc = "gather"
        /\ wpc[j] = "inflight"
        /\ NoTraffic
        /\ jsem' = jsem + 1
        /\ IF ~ShouldUpdate(percent, elapsed)
           THEN /\ wpc' = [wpc EXCEPT ![j] = "done"]
                /\ report' = Report(percent, elapsed, FALSE)
                /\ UNCHANGED <<status, progress, translated_segments, error_message,
                               redis, last_progress_update, epc, raised>>
           ELSE IF commitOk
           THEN /\ wpc' = [wpc EXCEPT ![j] = "done"]
                /\ translated_segments' = j
                /\ progress' = UpdatedProgress(j)
                /\ last_progress_update' = percent
                /\ redis' = Snapshot(status, percent, total, j, error_message)
                /\ report' = Report(percent, elapsed, TRUE)
                /\ UNCHANGED <<status, error_message, epc, raised>>
           ELSE /\ wpc' = [wpc EXCEPT ![j] = "raised"]
                /\ \E ok \in BOOLEAN : Except("translate", UpdatedProgress(j), j, ok)
                /\ report' = Report(percent, elapsed, FALSE)
                /\ UNCHANGED last_progress_update
        /\ UNCHANGED <<result_file_path, total_count, chunk_i, wasCompleted>>
        /\ ReportFrame
        /\ Held(held)

\* a slip: the caller goes on as soon as one task is done
GatheredAny == \E j \in 1..Len(wpc) : wpc[j] = "done"

\* `results = await asyncio.gather(*tasks)` returns: every task has returned
Gathered == \A j \in 1..Len(wpc) : wpc[j] = "done"

\* gather returns, the cells of the chunk are updated, the loop goes on
EndChunk ==
    /\ epc = "gather"
    /\ NoTraffic
    /\ Gathered
    /\ chunk_i' = chunk_i + batch_size
    /\ wpc' = <<>>
    /\ epc' = "loop"
    /\ UNCHANGED <<status, progress, translated_segments, error_message,
                   result_file_path, redis, last_progress_update, total_count, jsem,
                   raised, wasCompleted>>
    /\ EngineFrame
    /\ Held(held)

\* the loop is over: wb.save(result_path), which may raise
SaveResult(writable) ==
    /\ epc = "loop"
    /\ NoTraffic
    /\ chunk_i >= total_count
    /\ IF writable
       THEN /\ epc' = "mark"
            /\ UNCHANGED <<status, progress, translated_segments, error_message, redis,
                           raised>>
       ELSE \E ok \in BOOLEAN : Except("save", progress, translated_segments, ok)
    /\ UNCHANGED <<result_file_path, last_progress_update, total_count, chunk_i, wpc,
                   jsem, wasCompleted>>
    /\ EngineFrame
    /\ Held(IF writable THEN held \ {"workbook"} ELSE held)

\* `self.task.mark_as_completed(result_path)`
MarkCompleted ==
    /\ epc = "mark"
    /\ NoTraffic
    /\ MarkAsCompleted("result.xlsx")
    /\ wasCompleted' = TRUE
    /\ epc' = "commit"
    /\ UNCHANGED <<translated_segments, error_message, redis, last_progress_update,
                   total_count, chunk_i, wpc, jsem, raised>>
    /\ EngineFrame
    /\ Held(held)

\* `db.commit()` after mark_as_completed, inside the try: then the completed
\* snapshot; when it raises, the except block runs on the completed task
CommitCompleted(commitOk) ==
    /\ epc = "commit"
    /\ NoTraffic
    /\ IF commitOk
       THEN /\ redis' = Snapshot("completed", 100, total_segments, total_segments,
                                 error_message)
            /\ epc' = "done"
            /\ UNCHANGED <<status, progress, translated_segments, error_message, raised>>
       ELSE \E ok \in BOOLEAN : Except("commit", progress, translated_segments, ok)
    /\ UNCHANGED <<result_file_path, last_progress_update, total_count, chunk_i, wpc,
                   jsem, wasCompleted>>
    /\ EngineFrame
    /\ Held(held)

\* the client of the other specifications, unused here
InitClientIdle ==
    /\ texts = <<>>
    /\ backup_model = "None"
    /\ db = TRUE
    /\ max_concurrency = 1
    /\ current_model = model
    /\ cache = [k \in AllKeys |-> <<>>]
    /\ sem = 1
    /\ pc = <<>>
    /\ attempt = <<>>
    /\ calls = <<>>
    /\ callModel = <<>>
    /\ result = <<>>
    /\ batch = "idle"
    /\ sorted_results = <<>>
    /\ primAllRL = <<>>
    /\ backupFailed = FALSE
    /\ started = 0
    /\ history = <<>>
    /\ callEntry = None
    /\ callLookupOk = TRUE
    /\ callSaveOk = TRUE

\* an uploaded job: pending, nothing translated, no snapshot yet
InitJob ==
    /\ InitClientIdle
    /\ InitKeysIdle
    /\ InitStartIdle
    /\ InitDocIdle
    /\ response = None
    /\ file_type \in FileTypes
    /\ thread_count = 5
    /\ status = "pending"
    /\ progress = 0
    /\ translated_segments = 0
    /\ error_message = None
    /\ result_file_path = None
    /\ redis = None
    /\ last_progress_update = 0
    /\ epc = "idle"
    /\ total_count = 0
    /\ chunk_i = 0
    /\ wpc = <<>>
    /\ jsem = 0
    /\ http = 0
    /\ raised = None
    /\ extracted = FALSE
    /\ requests = 0
    /\ wasCompleted = FALSE
    /\ report = None
    /\ held = {}

NextJob ==
    \/ \E tc \in 1..MaxConcurrency, ok \in BOOLEAN : StartTranslate(tc, ok)
    \/ StartRejected
    \/ \E loaded \in BOOLEAN : LoadTask(loaded)
    \/ GetFormatter
    \/ \E exists \in BOOLEAN : CheckSource(exists)
    \/ \E readable \in BOOLEAN, n \in SegmentCounts : Extract(readable, n)
    \/ StartChunk
    \/ \E j \in 1..Len(wpc) : WorkerAcquire(j)
    \/ \E j \in 1..Len(wpc), elapsed \in BOOLEAN, ok \in BOOLEAN :
          WorkerComplete(j, elapsed, ok)
    \/ EndChunk
    \/ \E writable \in BOOLEAN : SaveResult(writable)
    \/ MarkCompleted
    \/ \E ok \in BOOLEAN : CommitCompleted(ok)

SpecJob == InitJob /\ [][NextJob]_vars

\* the steps of the engine run: the executor thread runs execute and the
\* formatter's event loop runs every task that can go on; the provider
\* answers every request
EngineStep ==
    \/ \E loaded \in BOOLEAN : LoadTask(loaded)
    \/ GetFormatter
    \/ \E exists \in BOOLEAN : CheckSource(exists)
    \/ \E readable \in BOOLEAN, n \in SegmentCounts : Extract(readable, n)
    \/ StartChunk
    \/ \E j \in 1..Len(wpc) : WorkerAcquire(j)
    \/ \E j \in 1..Len(wpc), elapsed \in BOOLEAN, ok \in BOOLEAN :
          WorkerComplete(j, elapsed, ok)
    \/ EndChunk
    \/ \E writable \in BOOLEAN : SaveResult(writable)
    \/ MarkCompleted
    \/ \E ok \in BOOLEAN : CommitCompleted(ok)

\* the job under fair scheduling of the engine run
SpecJobFair == InitJob /\ [][NextJob]_vars /\ WF_vars(EngineStep)

\* ------------------------------------------------------------------------
\* Properties of the job

\* the status changes the job may make
AllowedTransitions ==
    {<<"pending", "processing">>, <<"processing", "completed">>,
     <<"processing", "failed">>}

\* C3: the status changes only pending -> processing -> completed or failed,
\* and once completed or failed no step changes it again.
StatusTransitionsC3 ==
    [][status' # status => <<status, status'>> \in AllowedTransitions]_vars

\* the percentage of the last snapshot published (0 before the first)
PublishedProgress == IF redis = None THEN 0 ELSE redis[1].progress

\* C4: the published progress percentage never decreases over the life of a
\* job, whatever the order in which the units complete, across chunks, up to
\* the snapshot written when the job becomes completed or failed.
ProgressMonotoneC4 == [][PublishedProgress' >= PublishedProgress]_vars

\* the steps of execute before the job is marked completed
StepsC10 == {"formatter", "instantiate", "source", "extract", "translate", "save"}

JobTerminatesC12 == (status = "processing") ~> (status \in {"completed", "failed"})

Finished == chunk_i + Cardinality({j \in 1..Len(wpc) : wpc[j] = "done"})

\* a step in which a progress report was committed and published
CommittedReport ==
    /\ epc = "gather"
    /\ redis' # redis
    /\ redis' # None
    /\ redis'[1].status = "processing"

\* C24: every published progress report carries total = the number of
\* segments extracted for the job and current = the number of segments whose
\* translation is over, and none shows 100% while a segment is untranslated.
ReportCountsC24 ==
    [][CommittedReport =>
          /\ redis'[1].total_segments = total_count
          /\ redis'[1].translated_segments = Finished'
          /\ redis'[1].progress = 100 => Finished' = total_count]_vars

\* C25: the task and the snapshot agree after every committed progress report
\* and at completion: the task's progress is the snapshot's, and on a
\* completed job both hold translated_segments = total_segments = the number
\* of segments extracted.
RecordsAgreeC25 ==
    (redis # None /\ status \in {"processing", "completed"} /\ redis[1].status = status) =>
        /\ progress = redis[1].progress
        /\ status = "completed" =>
              /\ translated_segments = total_count
              /\ total_segments = total_count
              /\ redis[1].translated_segments = total_count
              /\ redis[1].total_segments = total_count

\* provider requests of the job that are in flight
InFlight == Cardinality({j \in 1..Len(wpc) : wpc[j] = "inflight"})

\* provider requests of the job's EnhancedAITranslator that are in flight
ClientInFlight == Cardinality({i \in Idx : pc[i] \in {"primary", "backup"}})

\* a job run by EnhancedTranslateEngine (translate/enhanced_engine.py): its
\* _init_ai_translator builds an EnhancedAITranslator over the engine's session
\* and sets no thread_count on it, so ExcelFormatter.translate finds none and
\* hands the batch max_concurrency = 5; the cells are the batch
InitEnhancedJob ==
    /\ InitDocIdle
    /\ InitKeysIdle
    /\ InitStartIdle
    /\ response = None
    /\ file_type = "xlsx"
    /\ thread_count \in 1..MaxConcurrency
    /\ status = "processing"
    /\ progress = 0
    /\ translated_segments = 0
    /\ error_message = None
    /\ result_file_path = None
    /\ redis = Snapshot("processing", 0, 0, 0, None)
    /\ last_progress_update = 0
    /\ epc = "translate"
    /\ total_count = 0
    /\ chunk_i = 0
    /\ wpc = <<>>
    /\ jsem = 0
    /\ http = 200
    /\ raised = None
    /\ extracted = TRUE
    /\ requests = 0
    /\ wasCompleted = FALSE
    /\ report = None
    /\ held = {"client", "workbook"}
    /\ texts \in SeqsOf(TextPool, 1, MaxTexts)
    /\ backup_model \in BackupModels
    /\ db = TRUE
    /\ max_concurrency = default_thread_count
    /\ current_model = model
    /\ cache = [k \in AllKeys |-> <<>>]
    /\ sem = max_concurrency
    /\ pc = [i \in Idx |-> IF IsBlank(texts[i]) THEN "none" ELSE "waiting"]
    /\ attempt = [i \in Idx |-> 0]
    /\ calls = [i \in Idx |-> 0]
    /\ callModel = [i \in Idx |-> model]
    /\ result = [i \in Idx |-> None]
    /\ batch = "running"
    /\ sorted_results = <<>>
    /\ primAllRL = [i \in Idx |-> TRUE]
    /\ backupFailed = FALSE
    /\ started = 0
    /\ history = <<>>
    /\ callEntry = None
    /\ callLookupOk = TRUE
    /\ callSaveOk = TRUE

SpecEnhancedJob == InitEnhancedJob /\ [][NextBatch]_vars

\* C34: the provider requests of a job that are in flight, whichever engine
\* runs it, are never more than the thread_count the job was started with.
PoolBoundC34 ==
    /\ InFlight <= thread_count
    /\ ClientInFlight <= thread_count

\* C35: when execute has ended, by return or by exception, it holds nothing:
\* the session, the translator's client and the workbook are closed.
ReleasedC35 == epc = "done" => held = {}

\* C36: the document is read (extraction) and written (the cells of a chunk
\* are updated) only while no provider request of the job is in flight.
NoOverlapC36 ==
    [][(extracted' # extracted \/ chunk_i' # chunk_i) =>
          /\ InFlight = 0
          /\ InFlight' = 0]_vars

\* ------------------------------------------------------------------------
\* Start requests for one pending job. Each request has its own session
\* (get_db). Its dependency get_current_user is a plain function, run in the
\* thread pool, and makes the first read of the session's transaction; the
\* body of start_translate then runs on the event loop with no await in it.

MaxRequests == 3

Requests == 1..MaxRequests

\* the statuses `db.query(Translate)...first()` of request r can return.
\* create_engine names no isolation level, so the server's applies: the
\* transaction reads as of its first read (REPEATABLE READ, the default of
\* the configured MySQL) or as of now (READ COMMITTED)
Visible(r) == {snapshot[r][1], status}

\* what a step of a start request leaves alone
StartFrame ==
    /\ UNCHANGED <<file_type, translated_segments, error_message, result_file_path,
                   last_progress_update, total_count, chunk_i, wpc, jsem, raised,
                   extracted, requests, wasCompleted, report, held>>
    /\ UNCHANGED cvars
    /\ UNCHANGED <<dvars, avars, kvars>>

\* get_current_user for request r: `db.query(Customer)...first()`
GetCurrentUser(r) ==
    /\ rpc[r] = "depends"
    /\ rpc' = [rpc EXCEPT ![r] = "handler"]
    /\ snapshot' = [snapshot EXCEPT ![r] = Some(status)]
    /\ UNCHANGED <<thread_count, status, progress, redis, epc, http, scheduled>>
    /\ StartFrame

\* the body of start_translate for request r, the status check passed:
\* configuration, mark_as_started, commit, snapshot, create_task; a failing
\* commit is rolled back and answered 500
StartPassed(r, tc, commitOk) ==
    /\ rpc[r] = "handler"
    /\ \E seen \in Visible(r) : seen = "pending"
    /\ rpc' = [rpc EXCEPT ![r] = "answered"]
    /\ IF commitOk
       THEN /\ MarkAsStarted
            /\ thread_count' = tc
            /\ redis' = Snapshot("processing", 0, 0, 0, None)
            /\ epc' = "scheduled"
            /\ scheduled' = scheduled + 1
            /\ http' = 200
       ELSE /\ http' = 500
            /\ UNCHANGED <<status, progress, thread_count, redis, epc, scheduled>>
    /\ UNCHANGED snapshot
    /\ StartFrame

\* the body of start_translate for request r, the status check failed: 400
StartRefused(r) ==
    /\ rpc[r] = "handler"
    /\ \E seen \in Visible(r) : seen # "pending"
    /\ rpc' = [rpc EXCEPT ![r] = "answered"]
    /\ http' = 400
    /\ UNCHANGED <<thread_count, status, progress, redis, epc, snapshot, scheduled>>
    /\ StartFrame

\* an uploaded job and the start requests for it, none handled yet
InitStart ==
    /\ InitClientIdle
    /\ InitKeysIdle
    /\ InitJobIdle
    /\ rpc = [r \in Requests |-> "depends"]
    /\ snapshot = [r \in Requests |-> None]
    /\ scheduled = 0

NextStart ==
    \/ \E r \in Requests : GetCurrentUser(r)
    \/ \E r \in Requests, tc \in 1..MaxConcurrency, ok \in BOOLEAN : StartPassed(r, tc, ok)
    \/ \E r \in Requests : StartRefused(r)

SpecStart == InitStart /\ [][NextStart]_vars

\* C38: at most one engine execution of the job is handed to
\* asyncio.create_task, whatever start requests are handled together.
ScheduledOnceC38 == scheduled <= 1

\* a call of _update_progress_with_db: a task leaves the semaphore
ReportStep == epc = "gather" /\ jsem' = jsem + 1

WitnessC36 ==
    /\ epc = "loop"
    /\ thread_count = 2
    /\ total_count > batch_size
    /\ chunk_i = batch_size
    /\ requests = batch_size

\* ------------------------------------------------------------------------
\* The progress reports of a markdown job: MarkdownFormatter.translate_async
\* hands every unit of the document to one translate_batch_async_concurrent
\* call, so the total of a report is the number of units of the document.

\* a document with more units than there are percent points
ManyUnits == 101

\* tasks of the batch that are followed
MaxReports == 4

\* numbers of units the document may hold
UnitCounts == (1..MaxSegments) \cup {ManyUnits}

\* the batch of a started md job has just been handed to gather
InitReport ==
    /\ InitClientIdle
    /\ InitKeysIdle
    /\ InitStartIdle
    /\ InitDocIdle
    /\ response = None
    /\ file_type = "md"
    /\ thread_count \in 1..MaxConcurrency
    /\ status = "processing"
    /\ progress = 0
    /\ translated_segments = 0
    /\ error_message = None
    /\ result_file_path = None
    /\ redis = Snapshot("processing", 0, 0, 0, None)
    /\ last_progress_update = 0
    /\ epc = "gather"
    /\ total_count \in UnitCounts
    /\ chunk_i = 0
    /\ wpc = [j \in 1..total_count |-> "waiting"]
    /\ jsem = thread_count
    /\ http = 200
    /\ raised = None
    /\ extracted = TRUE
    /\ requests = 0
    /\ wasCompleted = FALSE
    /\ report = None
    /\ held = {"session", "client"}

\* the first tasks of the batch enter the semaphore
ReportAcquire(j) ==
    /\ j <= MaxReports
    /\ WorkerAcquire(j)

\* gather returns, the document is rebuilt and written, which may raise
MdGathered(writable) ==
    /\ epc = "gather"
    /\ NoTraffic
    /\ Gathered
    /\ IF writable
       THEN /\ epc' = "mark"
            /\ UNCHANGED <<status, progress, translated_segments, error_message, redis,
                           raised>>
       ELSE \E ok \in BOOLEAN : Except("save", progress, translated_segments, ok)
    /\ UNCHANGED <<result_file_path, last_progress_update, total_count, chunk_i, wpc,
                   jsem, wasCompleted>>
    /\ EngineFrame
    /\ Held(held)

NextReport ==
    \/ \E j \in 1..Len(wpc) : ReportAcquire(j)
    \/ \E j \in 1..Len(wpc), elapsed \in BOOLEAN, ok \in BOOLEAN :
          WorkerComplete(j, elapsed, ok)
    \/ \E writable \in BOOLEAN : MdGathered(writable)
    \/ MarkCompleted
    \/ \E ok \in BOOLEAN : CommitCompleted(ok)

SpecReport == InitReport /\ [][NextReport]_vars

\* C23: a progress report writes the task and the snapshot only if it is the
\* job's first report, or its percent is at least 2 points away from the
\* percent committed last, or the update interval has passed since the last
\* committed report.
ThrottleC23 ==
    (report # None /\ report[1].wrote) =>
        \/ report[1].first
        \/ Abs(report[1].percent - report[1].last) >= progress_update_threshold
        \/ report[1].elapsed

\* ------------------------------------------------------------------------
\* The progress and preview endpoints (resources/translate/translate.py) over
\* the job above.

\* what a request leaves alone
ApiFrame == UNCHANGED cvars /\ UNCHANGED <<dvars, kvars, svars>>

\* no answer is on its way to the client
ApiIdle == response = None

\* a step of the job, between requests
JobStep ==
    /\ ApiIdle
    /\ NextJob

\* the key's hour is over: the snapshot is gone from Redis
RedisExpire ==
    /\ ApiIdle
    /\ redis # None
    /\ redis' = None
    /\ UNCHANGED <<file_type, thread_count, status, progress, translated_segments,
                   error_message, result_file_path, last_progress_update, epc,
                   total_count, chunk_i, wpc, jsem, http, raised, extracted, requests,
                   wasCompleted, report, held>>
    /\ UNCHANGED response
    /\ ApiFrame

\* a slip: Redis is never asked
RedisGetNever(up) == None

\* RedisClient.get_translate_progress: the stored snapshot, or None when
\* there is none or the server cannot be reached
RedisGet(up) == IF up THEN redis ELSE None

\* the progress_data built from the job's row
Row ==
    [status |-> status, progress |-> progress, total_segments |-> total_segments,
     translated_segments |-> translated_segments, error_message |-> error_message]

\* get_translate_progress by the job's customer, Redis reachable or not
GetProgress(up) ==
    /\ ApiIdle
    /\ response' =
          IF RedisGet(up) # None
          THEN [endpoint |-> "progress", code |-> 200, data |-> RedisGet(up),
                detail |-> "", redis_up |-> up, exists |-> TRUE]
          ELSE [endpoint |-> "progress", code |-> 200, data |-> Some(Row),
                detail |-> "", redis_up |-> up, exists |-> TRUE]
    /\ UNCHANGED jvars
    /\ ApiFrame

\* the answer of get_translate_preview
PreviewAnswer(code, detail, exists) ==
    [endpoint |-> "preview", code |-> code, data |-> None, detail |-> detail,
     redis_up |-> TRUE, exists |-> exists]

\* get_translate_preview by the job's customer, the source file there or
\* not.  The 400 for a type without formatter is raised inside the try block,
\* whose `except Exception` answers every exception with a 500.
GetPreview(exists) ==
    /\ ApiIdle
    /\ response' =
          IF ~exists THEN PreviewAnswer(404, "source file does not exist", exists)
          ELSE IF ~HasFormatter(file_type)
          THEN PreviewAnswer(500, "preview failed: unsupported file type", exists)
          ELSE IF ~Instantiable(file_type)
          THEN PreviewAnswer(500, "preview failed: cannot instantiate abstract class", exists)
          ELSE PreviewAnswer(200, "", exists)
    /\ UNCHANGED jvars
    /\ ApiFrame

\* the answer has gone to the client
Answered ==
    /\ ~ApiIdle
    /\ response' = None
    /\ UNCHANGED jvars
    /\ ApiFrame

\* the job with its endpoints
NextApi ==
    \/ JobStep
    \/ RedisExpire
    \/ \E up \in BOOLEAN : GetProgress(up)
    \/ \E exists \in BOOLEAN : GetPreview(exists)
    \/ Answered

SpecApi == InitJob /\ [][NextApi]_vars

\* an answer of the endpoint is on its way
Answer(endpoint) == response # None /\ response.endpoint = endpoint

\* C18: a job of a registered file type gets past formatter resolution, and
\* a preview of it, its source file being there, is answered with the
\* extracted content.
AdaptersCompleteC18 ==
    /\ (file_type \in FORMATTERS /\ epc \notin {"idle", "scheduled", "formatter"}
           /\ raised # Some("load")) =>
          raised \notin {Some("formatter"), Some("instantiate")}
    /\ (file_type \in FORMATTERS /\ Answer("preview") /\ response.exists) =>
          response.code = 200

\* C19: a preview of a file type without formatter is answered with the
\* unsupported-type error (400), a preview of a missing source file with the
\* source-missing error (404), and the two answers differ.
PreviewErrorsC19 ==
    /\ (Answer("preview") /\ response.exists /\ file_type \notin FORMATTERS) =>
          /\ response.code = 400
          /\ response.detail = "unsupported file type"
    /\ (Answer("preview") /\ ~response.exists) =>
          /\ response.code = 404
          /\ response.detail = "source file does not exist"

\* C20: the progress endpoint answers with the Redis snapshot whenever
\* Redis can be reached and holds one, and with the values of the job's row
\* only when it cannot be reached or holds none.
ProgressSourceC20 ==
    Answer("progress") =>
        /\ response.code = 200
        /\ response.data = IF response.redis_up /\ redis # None THEN redis ELSE Some(Row)

\* in the middle of a run Redis holds a snapshot that differs from the row,
\* and the answer is the snapshot
WitnessC20 ==
    /\ Answer("progress")
    /\ status = "processing"
    /\ redis # None
    /\ redis # Some(Row)
    /\ response.data = redis

\* ------------------------------------------------------------------------
\* A markdown file through MarkdownFormatter.translate_async
\* (formatters/markdown.py).  A string is the sequence of its characters,
\* "\n" the line break.

NL == "\n"

\* the backquote character of a code fence
BQ == "bq"

\* the lines a file is made of: a heading, two headings without a title
\* ("##" and "## "), a text line, an empty line, a list item, a code fence,
\* a line of white space, another text line
LinePool ==
    { <<"#", " ", "a">>, <<"#", "#">>, <<"#", "#", " ">>, <<"a">>, <<>>,
      <<"-", " ", "a">>, <<BQ, BQ, BQ>>, <<" ">>, <<"b">> }

\* '\n'.join(lines)
RECURSIVE JoinLines(_)
JoinLines(lines) ==
    IF lines = <<>> THEN <<>>
    ELSE IF Len(lines) = 1 THEN lines[1]
    ELSE lines[1] \o <<NL>> \o JoinLines(Tail(lines))

\* content.split('\n')
RECURSIVE SplitLines(_)
SplitLines(content) ==
    IF \A k \in 1..Len(content) : content[k] # NL THEN <<content>>
    ELSE LET k == CHOOSE j \in 1..Len(content) :
                      content[j] = NL /\ \A h \in 1..(j - 1) : content[h] # NL
         IN  <<SubSeq(content, 1, k - 1)>> \o SplitLines(SubSeq(content, k + 1, Len(content)))

\* the files: one to MaxLines lines
MdContents == {JoinLines(ls) : ls \in SeqsOf(LinePool, 1, MaxLines)}

\* s.strip() is not empty
HasText(s) == \E k \in 1..Len(s) : s[k] \notin {" ", NL}

\* s.strip()
RECURSIVE StripChars(_)
StripChars(s) ==
    IF s = <<>> THEN s
    ELSE IF s[1] \in {" ", NL} THEN StripChars(Tail(s))
    ELSE IF s[Len(s)] \in {" ", NL} THEN StripChars(SubSeq(s, 1, Len(s) - 1))
    ELSE s

\* how many characters from position k on are in the class
RECURSIVE CountWhile(_, _, _)
CountWhile(s, k, class) ==
    IF k > Len(s) \/ s[k] \notin class THEN 0 ELSE 1 + CountWhile(s, k + 1, class)

\* line.startswith(prefix)
StartsWith(line, prefix) ==
    Len(line) >= Len(prefix) /\ SubSeq(line, 1, Len(prefix)) = prefix

\* the length of group 1 of ^(#+\s*)(.*)$
HeadingPrefixLen(line) ==
    CountWhile(line, 1, {"#"}) + CountWhile(line, CountWhile(line, 1, {"#"}) + 1, {" "})

\* a paragraph
Para(prefix, text, is_code) ==
    [prefix |-> prefix, text |-> text, suffix |-> <<>>, is_code |-> is_code]

\* if current_para['text']: paragraphs.append(current_para)
Flush(paragraphs, current_para) ==
    IF current_para.text # <<>> THEN Append(paragraphs, current_para) ELSE paragraphs

\* the loop of _parse_markdown from line k on, and its last append
RECURSIVE ParseLines(_, _, _, _)
ParseLines(lines, k, paragraphs, current_para) ==
    IF k > Len(lines) THEN Flush(paragraphs, current_para)
    ELSE LET line == lines[k] IN
         IF StartsWith(line, <<"#">>)
         THEN ParseLines(lines, k + 1, Flush(paragraphs, current_para),
                         Para(SubSeq(line, 1, HeadingPrefixLen(line)),
                              SubSeq(line, HeadingPrefixLen(line) + 1, Len(line)), FALSE))
         ELSE IF StartsWith(line, <<BQ, BQ, BQ>>)
         THEN ParseLines(lines, k + 1,
                         Append(Flush(paragraphs, current_para), Para(<<>>, line, TRUE)),
                         Para(<<>>, <<>>, FALSE))
         ELSE IF line # <<>> /\ line[1] \in {"-", "*", "+"}
         THEN ParseLines(lines, k + 1, Flush(paragraphs, current_para),
                         IF CountWhile(line, 2, {" "}) >= 1
                         THEN Para(SubSeq(line, 1, 1 + CountWhile(line, 2, {" "})),
                                   SubSeq(line, 2 + CountWhile(line, 2, {" "}), Len(line)),
                                   FALSE)
                         ELSE Para(<<>>, line, FALSE))
         ELSE IF HasText(line)
         THEN ParseLines(lines, k + 1, paragraphs,
                         [current_para EXCEPT !.text =
                             IF current_para.text # <<>>
                             THEN current_para.text \o <<NL>> \o line ELSE line])
         ELSE ParseLines(lines, k + 1,
                         Append(Flush(paragraphs, current_para), Para(<<>>, <<>>, FALSE)),
                         Para(<<>>, <<>>, FALSE))

\* MarkdownFormatter._parse_markdown
ParseMarkdown(content) ==
    ParseLines(SplitLines(content), 1, <<>>, Para(<<>>, <<>>, FALSE))

\* the provider stub: every line of the text comes back with a mark at its
\* end, so a translation has the lines of its text
RECURSIVE MarkLines(_)
MarkLines(lines) ==
    IF lines = <<>> THEN <<>> ELSE <<Head(lines) \o <<"T">>>> \o MarkLines(Tail(lines))

\* AITranslator.translate_text_async on a text that is not blank
MdTranslateText(text) == StripChars(JoinLines(MarkLines(SplitLines(text))))

\* AITranslator.translate_batch_async_concurrent on texts that are not
\* blank: gather returns one (index, result) pair per text, placed by index
TranslateBatch(txts) ==
    SortedResults(txts, [k \in 1..Len(txts) |->
                            [index |-> k, result |-> MdTranslateText(txts[k])]])

\* texts_to_translate
RECURSIVE TextsToTranslate(_)
TextsToTranslate(paragraphs) ==
    IF paragraphs = <<>> THEN <<>>
    ELSE (IF HasText(Head(paragraphs).text) THEN <<Head(paragraphs).text>> ELSE <<>>)
             \o TextsToTranslate(Tail(paragraphs))

\* a slip: text_index is never advanced
RECURSIVE TranslatedParagraphsFirst(_, _, _)
TranslatedParagraphsFirst(paragraphs, translated_texts, text_index) ==
    IF paragraphs = <<>> THEN <<>>
    ELSE IF HasText(Head(paragraphs).text)
         THEN <<[prefix |-> Head(paragraphs).prefix, text |-> translated_texts[text_index],
                 suffix |-> Head(paragraphs).suffix, is_code |-> FALSE]>>
                  \o TranslatedParagraphsFirst(Tail(paragraphs), translated_texts, text_index)
         ELSE <<Head(paragraphs)>>
                  \o TranslatedParagraphsFirst(Tail(paragraphs), translated_texts, text_index)

\* translated_paragraphs: the paragraphs with text take translated_texts in
\* turn, the others are kept
RECURSIVE TranslatedParagraphs(_, _, _)
TranslatedParagraphs(paragraphs, translated_texts, text_index) ==
    IF paragraphs = <<>> THEN <<>>
    ELSE IF HasText(Head(paragraphs).text)
         THEN <<[prefix |-> Head(paragraphs).prefix, text |-> translated_texts[text_index],
                 suffix |-> Head(paragraphs).suffix, is_code |-> FALSE]>>
                  \o TranslatedParagraphs(Tail(paragraphs), translated_texts, text_index + 1)
         ELSE <<Head(paragraphs)>>
                  \o TranslatedParagraphs(Tail(paragraphs), translated_texts, text_index)

\* MarkdownFormatter._rebuild_markdown
RebuildMarkdown(paragraphs) ==
    JoinLines([k \in 1..Len(paragraphs) |->
                  IF paragraphs[k].is_code THEN paragraphs[k].text
                  ELSE paragraphs[k].prefix \o paragraphs[k].text \o paragraphs[k].suffix])

\* what a step of the markdown run leaves alone
MdFrame ==
    /\ UNCHANGED <<display_mode, source_doc>>
    /\ UNCHANGED <<avars, kvars, svars>>
    /\ UNCHANGED cvars
    /\ UNCHANGED <<file_type, thread_count, translated_segments, error_message, redis,
                   last_progress_update, total_count, chunk_i, wpc, jsem, http, raised,
                   extracted, requests, wasCompleted, report,
                   held>>

\* the file is read and parsed
MdParse ==
    /\ fpc = "init"
    /\ paragraphs_data' = ParseMarkdown(source_doc)
    /\ fpc' = "translate"
    /\ UNCHANGED <<doc, result_file, prompts, status, progress, result_file_path, epc>>
    /\ MdFrame

\* the texts go to the translator in one batch and the paragraphs take the
\* results in turn
MdTranslate ==
    /\ fpc = "translate"
    /\ prompts' = TextsToTranslate(paragraphs_data)
    /\ doc' = TranslatedParagraphs(paragraphs_data,
                  TranslateBatch(TextsToTranslate(paragraphs_data)), 1)
    /\ fpc' = "rebuild"
    /\ UNCHANGED <<paragraphs_data, result_file, status, progress, result_file_path, epc>>
    /\ MdFrame

\* the result is rebuilt and written
MdWrite ==
    /\ fpc = "rebuild"
    /\ result_file' = Some(RebuildMarkdown(doc))
    /\ fpc' = "returned"
    /\ UNCHANGED <<doc, paragraphs_data, prompts, status, progress, result_file_path, epc>>
    /\ MdFrame

\* execute, the path returned: mark_as_completed(result_path)
MdCompleted ==
    /\ fpc = "returned"
    /\ MarkAsCompleted("result.md")
    /\ fpc' = "completed"
    /\ epc' = "done"
    /\ UNCHANGED <<doc, paragraphs_data, result_file, prompts>>
    /\ MdFrame

\* the job record and the engine of a started job of the given file type
\* whose source file exists, the engine about to call the formatter
InitStartedJob(ft) ==
    /\ file_type = ft
    /\ thread_count = 5
    /\ status = "processing"
    /\ progress = 0
    /\ translated_segments = 0
    /\ error_message = None
    /\ result_file_path = None
    /\ redis = Snapshot("processing", 0, 0, 0, None)
    /\ last_progress_update = 0
    /\ epc = "translate"
    /\ total_count = 0
    /\ chunk_i = 0
    /\ wpc = <<>>
    /\ jsem = 0
    /\ http = 200
    /\ raised = None
    /\ extracted = FALSE
    /\ requests = 0
    /\ wasCompleted = FALSE
    /\ report = None
    /\ held = {"session", "client"}

\* the display modes a start request may ask for: 1 replace, 2 parallel
DisplayModes == {1, 2}

\* a started md job, in either display mode, over each file
InitMd ==
    /\ InitClientIdle
    /\ InitKeysIdle
    /\ InitStartIdle
    /\ InitStartedJob("md")
    /\ response = None
    /\ display_mode \in DisplayModes
    /\ source_doc \in MdContents
    /\ doc = <<>>
    /\ paragraphs_data = <<>>
    /\ fpc = "init"
    /\ result_file = None
    /\ prompts = <<>>

NextMd ==
    \/ MdParse
    \/ MdTranslate
    \/ MdWrite
    \/ MdCompleted

SpecMd == InitMd /\ [][NextMd]_vars

\* the paragraphs extraction makes of the file, and those with text: the units
Parsed == ParseMarkdown(source_doc)
UnitIndexes == {k \in 1..Len(Parsed) : HasText(Parsed[k].text)}

\* the paragraph of the n-th unit
NthUnit(n) ==
    CHOOSE k \in UnitIndexes : Cardinality({j \in UnitIndexes : j < k}) = n - 1

\* C14: once the translations are placed, reinjection has used exactly one
\* translated entry per extracted unit, in extraction order: the i-th text
\* sent is the i-th unit's text, the i-th unit reads the translation of its
\* own text under its own prefix, and the other paragraphs are as they were.
ReinjectionAlignedC14 ==
    fpc \in {"rebuild", "returned", "completed"} =>
        /\ Len(prompts) = Cardinality(UnitIndexes)
        /\ Len(doc) = Len(Parsed)
        /\ \A i \in 1..Cardinality(UnitIndexes) :
              /\ prompts[i] = Parsed[NthUnit(i)].text
              /\ doc[NthUnit(i)].text = MdTranslateText(Parsed[NthUnit(i)].text)
              /\ doc[NthUnit(i)].prefix = Parsed[NthUnit(i)].prefix
        /\ \A k \in (1..Len(Parsed)) \ UnitIndexes : doc[k] = Parsed[k]

\* a file of two different units with an empty line between them is written
\* with each unit's own translation in its place
WitnessC14 ==
    /\ fpc = "completed"
    /\ source_doc = <<"b", NL, NL, "a">>
    /\ prompts = << <<"b">>, <<"a">> >>
    /\ result_file = Some(<<"b", "T", NL, NL, "a", "T">>)

\* the lines occur in the written result from line j on
OccursAt(lines, j) ==
    /\ j + Len(lines) - 1 <= Len(SplitLines(result_file[1]))
    /\ SubSeq(SplitLines(result_file[1]), j, j + Len(lines) - 1) = lines

\* the lines of a unit in the file, and of its translation in a result
UnitSourceLines(k) == SplitLines(Parsed[k].prefix \o Parsed[k].text)
UnitTranslationLines(k) == SplitLines(Parsed[k].prefix \o MdTranslateText(Parsed[k].text))

\* C15: the written result is laid out in the display mode the job was
\* started with: in parallel mode (2) every source unit is kept and its
\* translation comes directly after it, in replace mode (1) the translation
\* stands in the unit's place.
DisplayModeHonouredC15 ==
    (fpc = "completed" /\ result_file # None) =>
        /\ display_mode = 2 =>
              \A k \in UnitIndexes :
                  \E j \in 1..Len(SplitLines(result_file[1])) :
                      /\ OccursAt(UnitSourceLines(k), j)
                      /\ \/ OccursAt(UnitTranslationLines(k), j + Len(UnitSourceLines(k)))
                         \/ OccursAt(SplitLines(MdTranslateText(Parsed[k].text)),
                                     j + Len(UnitSourceLines(k)))
        /\ display_mode = 1 =>
              \A k \in UnitIndexes :
                  \E j \in 1..Len(SplitLines(result_file[1])) :
                      OccursAt(UnitTranslationLines(k), j)

\* C16: a job whose file yields no unit completes, without any request to
\* the provider, and the file at its result_file_path exists and has the
\* content of the source file.
EmptyExtractionCopiesC16 ==
    (fpc = "completed" /\ UnitIndexes = {}) =>
        /\ status = "completed"
        /\ prompts = <<>>
        /\ result_file_path # None
        /\ result_file = Some(source_doc)

\* the lines of the file, and of the written result
SourceLines == SplitLines(source_doc)
ResultLines == SplitLines(result_file[1])

\* the lines of the file that are headings
Headings == {i \in 1..Len(SourceLines) : StartsWith(SourceLines[i], <<"#">>)}

\* a heading's marker prefix and its own text
Marker(line) == SubSeq(line, 1, HeadingPrefixLen(line))
Title(line) == SubSeq(line, HeadingPrefixLen(line) + 1, Len(line))

\* the translation of a heading's text: nothing for no text
TitleTranslated(line) ==
    IF Title(line) = <<>> THEN <<>> ELSE MdTranslateText(Title(line))

\* C17: in the written result every heading of the file is on its line, made
\* of its marker prefix verbatim followed by the translation of its own text,
\* and no text sent to the translator has a line starting with a heading marker.
HeadingPrefixKeptC17 ==
    (fpc \in {"returned", "completed"} /\ result_file # None) =>
        /\ \A i \in Headings :
              /\ i <= Len(ResultLines)
              /\ ResultLines[i] = Marker(SourceLines[i]) \o TitleTranslated(SourceLines[i])
        /\ \A p \in 1..Len(prompts) :
              \A l \in 1..Len(SplitLines(prompts[p])) :
                  ~StartsWith(SplitLines(prompts[p])[l], <<"#">>)

\* the texts go to a translator that returns every text unchanged and the
\* paragraphs take the results in turn
MdEcho ==
    /\ fpc = "translate"
    /\ prompts' = TextsToTranslate(paragraphs_data)
    /\ doc' = TranslatedParagraphs(paragraphs_data, TextsToTranslate(paragraphs_data), 1)
    /\ fpc' = "rebuild"
    /\ UNCHANGED <<paragraphs_data, result_file, status, progress, result_file_path, epc>>
    /\ MdFrame

NextMdEcho ==
    \/ MdParse
    \/ MdEcho
    \/ MdWrite
    \/ MdCompleted

SpecMdEcho == InitMd /\ [][NextMdEcho]_vars

\* C40: with a translator that returns every text unchanged, the written
\* result is the file: the same lines in the same order.
RoundTripC40 ==
    (fpc \in {"returned", "completed"} /\ result_file # None) =>
        /\ result_file = Some(source_doc)
        /\ ResultLines = SourceLines

\* a code-fence line; a list item and its bullet marker
IsFence(line) == StartsWith(line, <<BQ, BQ, BQ>>)
IsListItem(line) ==
    line # <<>> /\ line[1] \in {"-", "*", "+"} /\ CountWhile(line, 2, {" "}) >= 1
Bullet(line) == SubSeq(line, 1, 1 + CountWhile(line, 2, {" "}))

\* the bullet markers of the list items among the lines, in order
Bullets(lines) ==
    [k \in 1..Len(SelectSeq(lines, IsListItem)) |-> Bullet(SelectSeq(lines, IsListItem)[k])]

\* C39: no text sent to the translator has a line that is a code fence or
\* that starts with a list item's bullet marker, and the written result has
\* the file's code-fence lines and bullet markers, unchanged and in order.
MarkupExcludedC39 ==
    /\ \A p \in 1..Len(prompts) :
          \A l \in 1..Len(SplitLines(prompts[p])) :
              /\ ~IsFence(SplitLines(prompts[p])[l])
              /\ ~IsListItem(SplitLines(prompts[p])[l])
    /\ (fpc \in {"returned", "completed"} /\ result_file # None) =>
          /\ SelectSeq(ResultLines, IsFence) = SelectSeq(SourceLines, IsFence)
          /\ Bullets(ResultLines) = Bullets(SourceLines)

\* ------------------------------------------------------------------------
\* The md5_key of the cache (enhanced_openai.py:71-83) between two clients
\* that share the translate_logs table.  A client is its configuration
\* (EnhancedAITranslator.__init__); md5 is taken as injective, so a key is the
\* string that is hashed.

\* rows the table is followed up to
MaxRows == 2

\* credentials, endpoints, models and texts of the two clients; one endpoint
\* is the other with a character more, which a text may begin with
Credentials == {"k", "k2"}
Endpoints == {"u", "uv"}
Models == {"m1", "m2"}
KeyTexts == {"x", "vx"}

\* the configurations a client may have
Configs ==
    [api_key : Credentials, api_base : Endpoints, model : Models, backup_model : {"None"}]

\* _generate_md5_key of a client with configuration c
ClientKey(c, text, lang) ==
    Md5Content(c.api_key, c.api_base, text, c.model, c.backup_model, lang)

\* the TranslateLog row _save_cache adds
LogRow(c, text, lang, content) ==
    [md5_key |-> ClientKey(c, text, lang), api_url |-> c.api_base, api_key |-> c.api_key,
     model |-> c.model, backup_model |-> c.backup_model, target_lang |-> lang,
     source |-> text, content |-> content]

\* `query(TranslateLog).filter_by(md5_key=md5_key).first()` on the table
RECURSIVE FirstByKey(_, _)
FirstByKey(rows, key) ==
    IF rows = <<>> THEN None
    ELSE IF Head(rows).md5_key = key THEN Some(Head(rows))
    ELSE FirstByKey(Tail(rows), key)

\* two clients over an empty table
InitKeys ==
    /\ InitClientIdle
    /\ InitJobIdle
    /\ InitStartIdle
    /\ clients \in [1..2 -> Configs]
    /\ translate_logs = <<>>
    /\ lookup = None

\* client n has translated text and saves it: _save_cache
KeySave(n, text) ==
    /\ Len(translate_logs) < MaxRows
    /\ translate_logs' = Append(translate_logs,
                                LogRow(clients[n], text, target_lang,
                                       text \o "_" \o clients[n].model))
    /\ UNCHANGED <<clients, lookup>>
    /\ UNCHANGED <<cvars, jvars, dvars, avars, svars>>

\* client n is asked for text and looks it up: _check_cache
KeyCheck(n, text) ==
    /\ lookup' = Some([by |-> clients[n], text |-> text, target_lang |-> target_lang,
                       row |-> FirstByKey(translate_logs,
                                          ClientKey(clients[n], text, target_lang))])
    /\ UNCHANGED <<clients, translate_logs>>
    /\ UNCHANGED <<cvars, jvars, dvars, avars, svars>>

NextKeys ==
    \/ \E n \in 1..2, text \in KeyTexts : KeySave(n, text)
    \/ \E n \in 1..2, text \in KeyTexts : KeyCheck(n, text)

SpecKeys == InitKeys /\ [][NextKeys]_vars

\* C29: a lookup finds a row only if the row was written for the same
\* sourceText, targetLang, model, backupModel, endpoint and credential as the
\* request.
FingerprintC29 ==
    (lookup # None /\ lookup[1].row # None) =>
        LET q == lookup[1]
            r == lookup[1].row[1]
        IN  /\ r.source = q.text
            /\ r.target_lang = q.target_lang
            /\ r.model = q.by.model
            /\ r.backup_model = q.by.backup_model
            /\ r.api_url = q.by.api_base
            /\ r.api_key = q.by.api_key

====
